---- MODULE Spec2Model ----
(***************************************************************************)
(* Model of streamlit_app.py: the YOLOProcessor video processor (lazy,     *)
(* lock-guarded model construction; per-frame recv callback that runs      *)
(* inference and draws boxes and captions) and the Streamlit script pass   *)
(* that binds the toggle and the slider to the processor's fields.         *)
(*                                                                         *)
(* Units: confidences and thresholds are in thousandths (0.25 = 250);      *)
(* raw box coordinates are in tenths of a pixel, as the floats the model   *)
(* yields before .astype(int).                                             *)
(***************************************************************************)
EXTENDS Integers, Sequences, FiniteSets, TLC

(* ---------------- bounds of the model ---------------- *)
NThreads == 2
MaxCalls == 3
MaxPasses == 2
AnnotCalls == 2

Threads == 1..NThreads

(* ---------------- program constants ---------------- *)
NoModel == 0
NoHolder == 0
InitThreshold == 250
InitEnable == TRUE
SliderMin == 100
SliderMax == 900
SliderStep == 50
SliderDefault == 250
ToggleDefault == TRUE
CaptionLift == 8

\* (variant: the slider declared with min_value=0.0)
SliderValues_m == { v \in 0..SliderMax : v % SliderStep = 0 }

\* the slider's admissible values: min, min+step, ..., max
SliderValues == { v \in SliderMin..SliderMax : (v - SliderMin) % SliderStep = 0 }
\* the slider positions a pass of the model may find the widget at
SliderChoices ==
  { v \in SliderValues : \A w \in SliderValues : v <= w } \cup
  { v \in SliderValues : \A w \in SliderValues : v >= w } \cup
  { v \in SliderValues : v = SliderDefault }

(* ---------------- optional values (Python None) ---------------- *)
Some(v) == [some |-> TRUE, v |-> v]
NoneVal == [some |-> FALSE, v |-> 0]

(* ---------------- label maps (model.names) ---------------- *)
NamesNone == [kind |-> "none", keys |-> {}, val |-> <<>>]
\* a mapping: class id -> name, with class 1 absent
NamesDict == [kind |-> "dict", keys |-> {0, 2}, val |-> (0 :> "person" @@ 2 :> "car")]
\* a sequence: val[k+1] is the name of class k
NamesList == [kind |-> "list", keys |-> {0, 1}, val |-> <<"person", "bicycle">>]
LabelMaps == {NamesDict, NamesList}

(* ---------------- frames and what the detector sees in them ---------------- *)
Frames == {1, 2, 3}

\* the detections the network produces for a frame, before the confidence
\* filter of predict(): box corners as floats (tenths), class, confidence.
RawBoxes(f) ==
  CASE f = 1 -> << [xyxy |-> <<500, 600, 2000, 2200>>, cls |-> Some(0), conf |-> Some(830)] >>
    [] f = 2 -> << [xyxy |-> <<105, 0, 400, 300>>, cls |-> Some(999), conf |-> Some(304)],
                   [xyxy |-> <<57, -35, 200, 78>>, cls |-> NoneVal, conf |-> Some(950)] >>
    [] OTHER -> << [xyxy |-> <<0, 80, 90, 200>>, cls |-> Some(1), conf |-> Some(100)] >>

(* ---------------- conversions ---------------- *)
Max(a, b) == IF a >= b THEN a ELSE b

\* numpy .astype(int) on a float: truncation toward zero
AsInt(v) == IF v >= 0 THEN v \div 10 ELSE -((-v) \div 10)

Digit(d) ==
  CASE d = 0 -> "0" [] d = 1 -> "1" [] d = 2 -> "2" [] d = 3 -> "3" [] d = 4 -> "4"
    [] d = 5 -> "5" [] d = 6 -> "6" [] d = 7 -> "7" [] d = 8 -> "8" [] OTHER -> "9"

RECURSIVE NatStr(_)
NatStr(n) == IF n < 10 THEN Digit(n) ELSE NatStr(n \div 10) \o Digit(n % 10)

\* str(i) for a Python int
IntStr(i) == IF i < 0 THEN "-" \o NatStr(-i) ELSE NatStr(i)

\* f"{conf*100:.0f}": conf (thousandths) times 100, rounded half to even
Percent(c) ==
  LET q == c \div 10
      r == c % 10
  IN  IF r > 5 \/ (r = 5 /\ q % 2 = 1) THEN q + 1 ELSE q

(* ---------------- the code's conditions and expressions ---------------- *)
\* (variant: the unlocked fast path is missing, every call takes the lock)
OuterCheck_m(m) == TRUE

\* _load_model_once, unlocked check: `if self.model is None`
OuterCheck(m) == m = NoModel

\* (variant: no second check under the lock)
InnerCheck_m(m) == TRUE

\* _load_model_once, check under the lock: `if self.model is None`
InnerCheck(m) == m = NoModel

\* (variant: acquire() without a release on the way out)
ReleaseOnExit_m(l) == l

\* leaving `with self._model_lock:` (normally or by an exception) releases it
ReleaseOnExit(l) == NoHolder

\* (variant: the early return is missing)
Skips_m(en) == FALSE

\* recv: `if not self.enable: return <frame unchanged>`
Skips(en) == ~en

\* (variant: predict() called without conf=, i.e. with __init__'s default)
PredictConf_m(thr) == 250

\* recv: conf=float(self.confidence_threshold)
PredictConf(thr) == thr

\* model.predict(img, conf=c): the detector's boxes for the frame whose
\* confidence is at least c, in the order the network produced them
Predict(f, c) ==
  LET Keep(b) == b.conf.v >= c
  IN  Some(SelectSeq(RawBoxes(f), Keep))

\* (variant: off by one in the length test)
HasBoxes_m(bs) == bs.some /\ Len(bs.v) > 1

\* recv: `if res.boxes is not None and len(res.boxes) > 0`
HasBoxes(bs) == bs.some /\ Len(bs.v) > 0

\* x1, y1, x2, y2 = box.xyxy[0].cpu().numpy().astype(int)
BoxInts(b) == [k \in 1..4 |-> AsInt(b.xyxy[k])]

\* conf = float(box.conf[0]) if box.conf is not None else 0.0
ConfOf(b) == IF b.conf.some THEN b.conf.v ELSE 0

\* cls_id = int(box.cls[0]) if box.cls is not None else -1
ClsOf(b) == IF b.cls.some THEN b.cls.v ELSE -1

\* (variant: the sequence branch tests only cls_id < len, so a negative id
\* indexes from the end, as Python does)
LabelOf_m(n1, n2, cls) ==
  IF n1.kind = "dict"
  THEN IF cls \in DOMAIN n2.val THEN n2.val[cls] ELSE IntStr(cls)
  ELSE IF n2.kind = "list" /\ cls < Len(n2.val) /\ -cls <= Len(n2.val)
       THEN n2.val[IF cls >= 0 THEN cls + 1 ELSE Len(n2.val) + cls + 1]
       ELSE IntStr(cls)

\* label = self.names.get(cls_id, str(cls_id)) if isinstance(self.names, dict)
\*         else (self.names[cls_id] if isinstance(self.names, (list, tuple))
\*               and 0 <= cls_id < len(self.names) else str(cls_id))
\* n1 is self.names as read by the first isinstance test, n2 as read afterwards.
LabelOf(n1, n2, cls) ==
  IF n1.kind = "dict"
  THEN IF cls \in DOMAIN n2.val THEN n2.val[cls] ELSE IntStr(cls)
  ELSE IF n2.kind = "list" /\ 0 <= cls /\ cls < Len(n2.val)
       THEN n2.val[cls + 1]
       ELSE IntStr(cls)

\* caption = f"{label} {conf*100:.0f}%"
Caption(label, c) == label \o " " \o NatStr(Percent(c)) \o "%"

\* (variant: no clamp)
TextOrg_m(x1, y1) == <<x1, y1 - CaptionLift>>

\* cv2.putText origin: (x1, max(0, y1 - 8))
TextOrg(x1, y1) == <<x1, Max(0, y1 - CaptionLift)>>

\* one loop iteration: cv2.rectangle and cv2.putText for a box (seen notes
\* what the loop's first read of self.names found)
Annotation(b, n1, n2) ==
  LET r == BoxInts(b)
  IN  [rect |-> r,
       seen |-> n1.kind,
       cls |-> ClsOf(b),
       label |-> LabelOf(n1, n2, ClsOf(b)),
       caption |-> Caption(LabelOf(n1, n2, ClsOf(b)), ConfOf(b)),
       org |-> TextOrg(r[1], r[2])]

(* ---------------- state ---------------- *)
VARIABLES
  scen,        \* the run's environment: frames the camera shows, how many calls
               \* the transport makes and overlaps, how many script passes
  proc,        \* webrtc_ctx.video_processor exists (the factory has run)
  model,       \* self.model: NoModel or the id of the constructed instance
  mnames,      \* the .names attribute of the constructed model instance
  names,       \* self.names
  lock,        \* self._model_lock: NoHolder or the thread holding it
  enable,      \* self.enable
  threshold,   \* self.confidence_threshold
  cb,          \* per transport thread: position and locals of its recv call
  hist,        \* per transport thread: what its current/last recv call did
  ui,          \* the Streamlit script pass: position, widget values, status
  stats        \* counters: calls started, passes started, constructions

vars == <<scen, proc, model, mnames, names, lock, enable, threshold, cb, hist, ui, stats>>

Idle == [pc |-> "idle", img |-> 0, enRead |-> FALSE, en |-> TRUE,
         confRead |-> FALSE, conf |-> 0, mdl |-> NoModel, boxes |-> Some(<<>>),
         i |-> 0, n1 |-> NamesNone, draws |-> <<>>, ret |-> "none"]

NoHist == [attempts |-> 0, tookLock |-> FALSE, predicts |-> 0, writes |-> 0,
           startEn |-> TRUE, startThr |-> 0, enW |-> {}, thrW |-> {},
           stable |-> FALSE, startLoaded |-> FALSE, afterFail |-> FALSE]

\* the processor's fields as __init__ sets them, no call made yet
Fresh ==
  /\ model = NoModel
  /\ mnames = NamesNone
  /\ names = NamesNone
  /\ lock = NoHolder
  /\ enable = InitEnable
  /\ threshold = InitThreshold
  /\ cb = [t \in Threads |-> Idle]
  /\ hist = [t \in Threads |-> NoHist]
  /\ stats = [calls |-> 0, passes |-> 0, built |-> 0, failed |-> FALSE]

\* the state after the script's first lines: no processor yet
Start(sc) ==
  /\ scen = sc
  /\ proc = FALSE
  /\ ui = [pc |-> "idle", en |-> ToggleDefault, thr |-> SliderDefault,
           sawProc |-> FALSE, nwrites |-> 0, pushed |-> FALSE, status |-> "none"]
  /\ Fresh


(* ---------------- the transport creates the processor ---------------- *)
\* video_processor_factory=YOLOProcessor: __init__ runs once per session
Connect ==
  /\ ~proc
  /\ proc' = TRUE
  /\ model' = NoModel
  /\ names' = NamesNone
  /\ enable' = InitEnable
  /\ threshold' = InitThreshold
  /\ lock' = NoHolder
  /\ UNCHANGED <<scen, mnames, cb, hist, ui, stats>>

(* ---------------- YOLOProcessor.recv, one step per shared access ---------------- *)
\* a render pass's write of self.enable / self.confidence_threshold, noted
\* in the record of every recv call in progress that has yet to read the field
NoteWrite(h, field, v) ==
  [t \in Threads |->
     IF cb[t].pc = "idle" THEN h[t]
     ELSE IF field = "enable" /\ ~cb[t].enRead THEN [h[t] EXCEPT !.enW = @ \cup {v}]
     ELSE IF field = "threshold" /\ ~cb[t].confRead /\ cb[t].pc # "ret"
          THEN [h[t] EXCEPT !.thrW = @ \cup {v}]
     ELSE h[t]]

\* the transport hands thread t a frame: img = frame.to_ndarray(format="bgr24")
RecvStart(t, f) ==
  /\ proc
  /\ cb[t].pc = "idle"
  /\ stats.calls < scen.calls
  /\ f \in scen.feed
  /\ Cardinality({u \in Threads : cb[u].pc # "idle"}) < scen.overlap
  /\ cb' = [cb EXCEPT ![t] = [Idle EXCEPT !.pc = "enable", !.img = f]]
  /\ hist' = [hist EXCEPT ![t] =
                [NoHist EXCEPT !.startEn = enable, !.startThr = threshold,
                               !.stable = (ui.pushed /\ ui.pc # "bind_thr"),
                               !.startLoaded = (model # NoModel),
                               !.afterFail = stats.failed]]
  /\ stats' = [stats EXCEPT !.calls = @ + 1]
  /\ UNCHANGED <<scen, proc, model, mnames, names, lock, enable, threshold, ui>>

\* `if not self.enable: return av.VideoFrame.from_ndarray(img, ...)`
RecvEnable(t) ==
  /\ cb[t].pc = "enable"
  /\ cb' = [cb EXCEPT ![t] =
              IF Skips(enable)
              THEN [@ EXCEPT !.enRead = TRUE, !.en = enable, !.pc = "ret", !.ret = "frame"]
              ELSE [@ EXCEPT !.enRead = TRUE, !.en = enable, !.pc = "load_check"]]
  /\ UNCHANGED <<scen, proc, model, mnames, names, lock, enable, threshold, hist, ui, stats>>

\* _load_model_once: the unlocked `if self.model is None`
RecvLoadCheck(t) ==
  /\ cb[t].pc = "load_check"
  /\ cb' = [cb EXCEPT ![t].pc = IF OuterCheck(model) THEN "lock" ELSE "predict"]
  /\ UNCHANGED <<scen, proc, model, mnames, names, lock, enable, threshold, hist, ui, stats>>

\* `with self._model_lock:` blocks until the lock is free
RecvLock(t) ==
  /\ cb[t].pc = "lock"
  /\ lock = NoHolder
  /\ lock' = t
  /\ cb' = [cb EXCEPT ![t].pc = "inner"]
  /\ hist' = [hist EXCEPT ![t].tookLock = TRUE]
  /\ UNCHANGED <<scen, proc, model, mnames, names, enable, threshold, ui, stats>>

\* the check under the lock; when the model is there, the with block ends
RecvInner(t) ==
  /\ cb[t].pc = "inner"
  /\ IF InnerCheck(model)
     THEN /\ cb' = [cb EXCEPT ![t].pc = "construct"]
          /\ lock' = lock
     ELSE /\ cb' = [cb EXCEPT ![t].pc = "predict"]
          /\ lock' = ReleaseOnExit(lock)
  /\ UNCHANGED <<scen, proc, model, mnames, names, enable, threshold, hist, ui, stats>>

\* self.model = YOLOCls("yolov8n.pt"), construction succeeds: a new instance,
\* carrying its own label map
RecvConstructOk(t, lm) ==
  /\ cb[t].pc = "construct"
  /\ model' = stats.built + 1
  /\ mnames' = lm
  /\ stats' = [stats EXCEPT !.built = @ + 1]
  /\ hist' = [hist EXCEPT ![t].attempts = @ + 1, ![t].writes = @ + 1]
  /\ cb' = [cb EXCEPT ![t].pc = "names"]
  /\ UNCHANGED <<scen, proc, names, lock, enable, threshold, ui>>

\* YOLOCls("yolov8n.pt") raises: the with block releases the lock and the
\* exception leaves recv; nothing was assigned
RecvConstructFail(t) ==
  /\ cb[t].pc = "construct"
  /\ lock' = ReleaseOnExit(lock)
  /\ stats' = [stats EXCEPT !.failed = TRUE]
  /\ hist' = [hist EXCEPT ![t].attempts = @ + 1]
  /\ cb' = [cb EXCEPT ![t].pc = "ret", ![t].ret = "raised"]
  /\ UNCHANGED <<scen, proc, model, mnames, names, enable, threshold, ui>>

\* self.names = self.model.names, then the with block ends
RecvNames(t) ==
  /\ cb[t].pc = "names"
  /\ names' = mnames
  /\ lock' = ReleaseOnExit(lock)
  /\ hist' = [hist EXCEPT ![t].writes = @ + 1]
  /\ cb' = [cb EXCEPT ![t].pc = "predict"]
  /\ UNCHANGED <<scen, proc, model, mnames, enable, threshold, ui, stats>>

\* results = self.model.predict(img, conf=float(self.confidence_threshold));
\* res = results[0]; the test for boxes. self.model being None raises.
RecvPredict(t) ==
  /\ cb[t].pc = "predict"
  /\ IF model = NoModel
     THEN /\ cb' = [cb EXCEPT ![t].pc = "ret", ![t].ret = "raised"]
          /\ hist' = hist
     ELSE LET c == PredictConf(threshold)
              bs == Predict(cb[t].img, c)
          IN  /\ cb' = [cb EXCEPT ![t] =
                          IF HasBoxes(bs)
                          THEN [@ EXCEPT !.confRead = TRUE, !.conf = c, !.mdl = model,
                                         !.boxes = bs, !.i = 1, !.pc = "label"]
                          ELSE [@ EXCEPT !.confRead = TRUE, !.conf = c, !.mdl = model,
                                         !.boxes = bs, !.pc = "ret", !.ret = "frame"]]
              /\ hist' = [hist EXCEPT ![t].predicts = @ + 1]
  /\ UNCHANGED <<scen, proc, model, mnames, names, lock, enable, threshold, ui, stats>>

\* loop body, first read of self.names: isinstance(self.names, dict)
RecvLabel(t) ==
  /\ cb[t].pc = "label"
  /\ cb' = [cb EXCEPT ![t].n1 = names, ![t].pc = "draw"]
  /\ UNCHANGED <<scen, proc, model, mnames, names, lock, enable, threshold, hist, ui, stats>>

\* rest of the loop body: the lookup, cv2.rectangle, cv2.putText; after the
\* last box, return av.VideoFrame.from_ndarray(img, ...)
RecvDraw(t) ==
  /\ cb[t].pc = "draw"
  /\ LET a == Annotation(cb[t].boxes.v[cb[t].i], cb[t].n1, names)
         last == cb[t].i >= Len(cb[t].boxes.v)
     IN  cb' = [cb EXCEPT ![t] =
                  IF last
                  THEN [@ EXCEPT !.draws = Append(@, a), !.pc = "ret", !.ret = "frame"]
                  ELSE [@ EXCEPT !.draws = Append(@, a), !.i = @ + 1, !.pc = "label"]]
  /\ UNCHANGED <<scen, proc, model, mnames, names, lock, enable, threshold, hist, ui, stats>>

\* the call is over: the transport has the frame (or the exception) and the
\* thread waits for the next frame
RecvReturn(t) ==
  /\ cb[t].pc = "ret"
  /\ cb' = [cb EXCEPT ![t] = Idle]
  /\ hist' = [hist EXCEPT ![t] = NoHist]
  /\ UNCHANGED <<scen, proc, model, mnames, names, lock, enable, threshold, ui, stats>>

(* ---------------- one pass of the Streamlit script ---------------- *)
\* the script reruns: st.toggle and st.slider return the widgets' values
RenderStart(e, v) ==
  /\ ui.pc = "idle"
  /\ stats.passes < scen.passes
  /\ ui' = [ui EXCEPT !.pc = "bind", !.en = e, !.thr = v, !.sawProc = FALSE,
                      !.nwrites = 0, !.status = "none"]
  /\ stats' = [stats EXCEPT !.passes = @ + 1]
  /\ UNCHANGED <<scen, proc, model, mnames, names, lock, enable, threshold, cb, hist>>

\* `if webrtc_ctx and webrtc_ctx.video_processor:` and the write of .enable
RenderBind ==
  /\ ui.pc = "bind"
  /\ IF proc
     THEN /\ enable' = ui.en
          /\ hist' = NoteWrite(hist, "enable", ui.en)
          /\ ui' = [ui EXCEPT !.pc = "bind_thr", !.sawProc = TRUE, !.nwrites = @ + 1]
     ELSE /\ UNCHANGED <<enable, hist>>
          /\ ui' = [ui EXCEPT !.pc = "status"]
  /\ UNCHANGED <<scen, proc, model, mnames, names, lock, threshold, cb, stats>>

\* the write of .confidence_threshold
RenderBindThreshold ==
  /\ ui.pc = "bind_thr"
  /\ threshold' = ui.thr
  /\ hist' = NoteWrite(hist, "threshold", ui.thr)
  /\ ui' = [ui EXCEPT !.pc = "status", !.nwrites = @ + 1, !.pushed = TRUE]
  /\ UNCHANGED <<scen, proc, model, mnames, names, lock, enable, cb, stats>>

\* the status line: info "Running"/"Paused" with a processor, else the warning
RenderStatus ==
  /\ ui.pc = "status"
  /\ ui' = [ui EXCEPT !.pc = "idle",
                      !.status = IF proc THEN (IF ui.en THEN "Running" ELSE "Paused")
                                 ELSE "warning"]
  /\ UNCHANGED <<scen, proc, model, mnames, names, lock, enable, threshold, cb, hist, stats>>

(* ---------------- specifications ---------------- *)
Step(t) ==
  \/ \E f \in Frames : RecvStart(t, f)
  \/ RecvEnable(t)
  \/ RecvLoadCheck(t)
  \/ RecvLock(t)
  \/ RecvInner(t)
  \/ \E lm \in LabelMaps : RecvConstructOk(t, lm)
  \/ RecvConstructFail(t)
  \/ RecvNames(t)
  \/ RecvPredict(t)
  \/ RecvLabel(t)
  \/ RecvDraw(t)
  \/ RecvReturn(t)

Render ==
  \/ \E e \in BOOLEAN, v \in SliderChoices : RenderStart(e, v)
  \/ RenderBind
  \/ RenderBindThreshold
  \/ RenderStatus

\* concurrent recv calls on one processor; the controls are left alone
LoadInit == Start([feed |-> {1}, calls |-> MaxCalls, overlap |-> NThreads, passes |-> 0])

LoadNext ==
  \/ Connect
  \/ \E t \in Threads : Step(t)

LoadSpec == LoadInit /\ [][LoadNext]_vars

\* every transport thread runs, so a recv call that can take a step takes it
FairSpec == LoadSpec /\ \A t \in Threads : WF_vars(Step(t))

\* script passes writing the controls while recv calls run; the transport's
\* worker hands recv one frame at a time (calls on any thread, not overlapping:
\* overlapping calls meet only at the model and its lock, which LoadSpec covers)
Init == Start([feed |-> {1}, calls |-> MaxCalls, overlap |-> 1, passes |-> MaxPasses])

Next ==
  \/ Connect
  \/ \E t \in Threads : Step(t)
  \/ Render

Spec == Init /\ [][Next]_vars

\* the camera shows every frame, with the slider left at one of its positions
AnnotInit ==
  \E v \in SliderChoices :
    /\ scen = [feed |-> Frames, calls |-> AnnotCalls, overlap |-> NThreads, passes |-> 0]
    /\ proc = TRUE
    /\ ui = [pc |-> "idle", en |-> ToggleDefault, thr |-> v,
             sawProc |-> TRUE, nwrites |-> 2, pushed |-> TRUE, status |-> "Running"]
    /\ model = NoModel
    /\ mnames = NamesNone
    /\ names = NamesNone
    /\ lock = NoHolder
    /\ enable = ToggleDefault
    /\ threshold = v
    /\ cb = [t \in Threads |-> Idle]
    /\ hist = [t \in Threads |-> NoHist]
    /\ stats = [calls |-> 0, passes |-> 1, built |-> 0, failed |-> FALSE]

AnnotNext == \E t \in Threads : Step(t)

AnnotSpec == AnnotInit /\ [][AnnotNext]_vars

(* ======================= properties ======================= *)
InCall(t) == cb[t].pc # "idle"
Returned(t) == cb[t].pc = "ret"
Draws(t) == { cb[t].draws[j] : j \in 1..Len(cb[t].draws) }

(* C1: the model is constructed at most once successfully; once constructed, *)
(* self.model stays that instance (never None again), no call is at the      *)
(* constructor any more, a call that took the lock afterwards constructs     *)
(* nothing, and every inference runs on that one instance.                   *)
C1_ConstructedOnce ==
  /\ stats.built <= 1
  /\ stats.built > 0 => model = 1
  /\ model # NoModel => \A t \in Threads : cb[t].pc # "construct"
  /\ \A t \in Threads : cb[t].confRead => cb[t].mdl = 1 /\ cb[t].mdl = model

\* a call that found the model missing, waited for the lock and found it built
C1_Witness ==
  \E t \in Threads :
    /\ hist[t].tookLock /\ hist[t].attempts = 0
    /\ cb[t].confRead /\ cb[t].mdl = 1

(* C2: a recv call that read self.enable as false returns its input frame    *)
(* with nothing drawn on it, whatever the threshold, without inference,      *)
(* without loading (no lock, no construction) and without writing any field. *)
C2_DisabledPassThrough ==
  \A t \in Threads :
    (cb[t].enRead /\ ~cb[t].en) =>
      /\ Returned(t) /\ cb[t].ret = "frame"
      /\ cb[t].img \in Frames /\ cb[t].draws = <<>>
      /\ ~cb[t].confRead /\ hist[t].predicts = 0
      /\ ~hist[t].tookLock /\ hist[t].attempts = 0 /\ hist[t].writes = 0

\* a paused call returning while the threshold sits at the slider's maximum
\* and the model is still not loaded
C2_Witness ==
  \E t \in Threads :
    /\ cb[t].enRead /\ ~cb[t].en /\ Returned(t)
    /\ threshold = 900 /\ model = NoModel

(* C3 as stated: a recv call that starts after a render pass has finished    *)
(* both writes, and before the next pass writes, uses exactly that pass's    *)
(* enable and threshold values.                                              *)
C3_ExactlyThatPass ==
  \A t \in Threads :
    hist[t].stable =>
      /\ cb[t].enRead => cb[t].en = hist[t].startEn
      /\ cb[t].confRead => cb[t].conf = hist[t].startThr

(* C3 amended: each field a recv call reads has either the value it had when *)
(* the call started (the last finished pass's value) or a value that a       *)
(* render pass wrote between the call's start and its read of the field,     *)
(* never any other value; with no such write it uses exactly the value       *)
(* present at its start.                                                     *)
C3_StartOrLaterWrite ==
  \A t \in Threads :
    /\ cb[t].enRead => cb[t].en \in ({hist[t].startEn} \cup hist[t].enW)
    /\ cb[t].confRead => cb[t].conf \in ({hist[t].startThr} \cup hist[t].thrW)

\* a call that started after a finished pass and ran inference with the
\* threshold a later pass wrote meanwhile
C3_Witness ==
  \E t \in Threads :
    /\ hist[t].stable /\ cb[t].confRead
    /\ cb[t].conf # hist[t].startThr /\ cb[t].conf \in hist[t].thrW

(* C4: self.confidence_threshold is in [0.1, 0.9] in every state, also       *)
(* before any pass has pushed a value, and so is every threshold handed to   *)
(* predict(); a pass that finds no processor writes nothing.                 *)
C4_ThresholdInRange ==
  /\ 100 <= threshold /\ threshold <= 900
  /\ \A t \in Threads : cb[t].confRead => 100 <= cb[t].conf /\ cb[t].conf <= 900
  /\ (ui.pc = "status" /\ ~ui.sawProc) => ui.nwrites = 0
  /\ ~ui.pushed => threshold = 250

\* a pass that found no processor is at its status line while a recv call of
\* the processor connected since has run inference with the unpushed default
C4_Witness ==
  /\ ui.pc = "status" /\ ~ui.sawProc
  /\ \E t \in Threads : cb[t].confRead /\ cb[t].conf = 250

(* ---- what the claims expect, stated without the code's operators ---- *)
\* positions, in the network's order, of the detections of frame f with
\* confidence at least c
Qualifying(f, c) == { k \in 1..Len(RawBoxes(f)) : RawBoxes(f)[k].conf.v >= c }

\* the j-th of them
NthQualifying(f, c, j) ==
  CHOOSE k \in Qualifying(f, c) : Cardinality({ m \in Qualifying(f, c) : m < k }) = j - 1

\* the class ids with an entry in label map lm, and the entry's name
HasEntry(lm, cls) == cls \in lm.keys
EntryName(lm, cls) == IF lm.kind = "list" THEN lm.val[cls + 1] ELSE lm.val[cls]

(* C5: a recv call that read enable as true and ran inference with threshold *)
(* t returns a frame carrying one annotation per detection of confidence     *)
(* >= t, in the network's order, each at that detection's box and with its   *)
(* class and percentage; with none qualifying (0.83 against 0.90) nothing is *)
(* drawn, so the frame is the input frame.                                   *)
C5_AnnotationsMatchDetections ==
  \A t \in Threads :
    (Returned(t) /\ cb[t].ret = "frame" /\ cb[t].confRead) =>
      LET f == cb[t].img
          c == cb[t].conf
      IN  /\ Len(cb[t].draws) = Cardinality(Qualifying(f, c))
          /\ \A j \in 1..Len(cb[t].draws) :
               LET b == RawBoxes(f)[NthQualifying(f, c, j)]
                   a == cb[t].draws[j]
               IN  /\ \A k \in 1..4 : a.rect[k] * 10 <= b.xyxy[k] + 9
                                   /\ a.rect[k] * 10 >= b.xyxy[k] - 9
                   /\ a.cls = (IF b.cls.some THEN b.cls.v ELSE -1)
                   /\ a.caption = a.label \o " " \o NatStr((b.conf.v + 5) \div 10) \o "%"
          /\ (f = 1 /\ c = 900) => cb[t].draws = <<>>
          /\ (f = 1 /\ c = 250) =>
               /\ Len(cb[t].draws) = 1
               /\ cb[t].draws[1].rect = <<50, 60, 200, 220>>
               /\ cb[t].draws[1].label = "person" => cb[t].draws[1].caption = "person 83%"

\* the 0.83 detection filtered out at threshold 0.90
C5_Witness ==
  \E t \in Threads :
    /\ Returned(t) /\ cb[t].ret = "frame" /\ cb[t].confRead
    /\ cb[t].img = 1 /\ cb[t].conf = 900 /\ cb[t].draws = <<>>

(* C6: for a lookup that finds self.names loaded, the label is the entry's   *)
(* name when the class id has an entry and the decimal string of the id when *)
(* it has none (absent key, index negative or past the end, -1 for a box     *)
(* without class); a lookup that finds self.names unset yields one of the    *)
(* two; and no call raises unless its own model construction failed.         *)
C6_LabelFallback ==
  \A t \in Threads :
    /\ \A a \in Draws(t) :
         /\ a.seen # "none" =>
              a.label = (IF HasEntry(mnames, a.cls) THEN EntryName(mnames, a.cls)
                         ELSE IntStr(a.cls))
         /\ a.seen = "none" =>
              \/ a.label = IntStr(a.cls)
              \/ HasEntry(mnames, a.cls) /\ a.label = EntryName(mnames, a.cls)
         /\ a.cls = 999 => a.label = "999"
         /\ a.cls = -1 => a.label = "-1"
    /\ cb[t].ret = "raised" => hist[t].attempts = 1 /\ cb[t].draws = <<>>

\* a box without class looked up in a sequence label map, and an absent key
\* looked up in a mapping
C6_Witness ==
  \E t \in Threads :
    /\ Returned(t)
    /\ \E a \in Draws(t) : a.cls = -1 /\ a.seen # "none" /\ a.label = "-1"
    /\ \E a \in Draws(t) : a.cls = 999 /\ a.label = "999"

(* C7: every caption is drawn at (x1, max(0, y1 - 8)): 8 above the box top   *)
(* when y1 >= 8, at y = 0 otherwise, never at a negative y; for the box      *)
(* (50,60)-(200,220) at (50, 52).                                            *)
C7_CaptionPosition ==
  \A t \in Threads : \A a \in Draws(t) :
    /\ a.org[1] = a.rect[1]
    /\ a.org[2] >= 0
    /\ a.rect[2] >= 8 => a.org[2] = a.rect[2] - 8
    /\ a.rect[2] < 8 => a.org[2] = 0
    /\ a.rect = <<50, 60, 200, 220>> => a.org = <<50, 52>>

\* one frame with a box whose top is above the frame and one whose top is at 0
C7_Witness ==
  \E t \in Threads :
    /\ \E a \in Draws(t) : a.rect[2] < 0 /\ a.org[2] = 0
    /\ \E a \in Draws(t) : a.rect[2] = 0 /\ a.org[2] = 0

C9_EveryCallReturns ==
  /\ \A t \in Threads :
       (InCall(t) /\ ~Returned(t)) ~>
         (Returned(t) /\ (cb[t].ret = "frame" \/ hist[t].attempts = 1))
  /\ [](\A t \in Threads : lock = t => cb[t].pc \in {"inner", "construct", "names"})
  /\ [](\A t \in Threads : hist[t].startLoaded => cb[t].pc # "lock" /\ ~hist[t].tookLock)

\* a call waits for the lock while another call holds it
C9_Witness ==
  \E t, u \in Threads :
    /\ t # u /\ cb[t].pc = "lock" /\ lock = u

(* C10: a recv call that is past _load_model_once and annotating finds the   *)
(* label map loaded (self.names is the model's names), and never labels a    *)
(* class id that has an entry with its numeric fallback.                     *)
C10_NamesLoadedWhenAnnotating ==
  \A t \in Threads :
    /\ cb[t].pc \in {"label", "draw"} => names.kind # "none"
    /\ \A a \in Draws(t) :
         HasEntry(mnames, a.cls) => a.label = EntryName(mnames, a.cls)

====
